---- MODULE Spec2Model ----
(***************************************************************************)
(* Model of src/parser.rs of embedded_midi: the byte-at-a-time MIDI        *)
(* parser MidiParser, its state enum MidiParserState, and the two helper   *)
(* functions is_status_byte and split_message_and_channel.                 *)
(*                                                                         *)
(* Spec   : a parser built by MidiParser::new() is fed bytes one at a time *)
(*          through parse_byte, the way the tests' assert_result does; the *)
(*          bytes fed and the value returned by every call are recorded.   *)
(* SpecParser : the parser alone, fed every u8 value, nothing recorded.     *)
(* SpecTwo : two parsers, each fed its own stream, the calls interleaved.  *)
(* SpecFn : the two pure helpers applied to every u8 value.                *)
(***************************************************************************)
EXTENDS Integers, Sequences, FiniteSets

VARIABLES
    state,      \* MidiParser.state : MidiParserState
    bytes,      \* the bytes passed to parse_byte so far, in order
    results,    \* the Option<MidiEvent> returned by each of those calls
    before,     \* self.state as each of those calls found it
    arg,        \* SpecFn: the u8 a helper function is applied to
    ret         \* SpecFn: which helper was applied, and what it returned

vars == <<state, bytes, results, before, arg, ret>>

----------------------------------------------------------------------------
(* Bounds and program constants *)

\* Longest byte stream fed to one parser.
MaxLen == 5

\* Longest byte stream fed to each of two parsers.
MaxLenTwo == 3

\* Largest value of the u8 parameter `byte`.
U8Max == 255

\* The bytes the stream is drawn from: one status byte of each supported
\* kind (NoteOff ch 0, NoteOn ch 2, ControlChange ch 15), two status bytes
\* of unsupported kinds (ProgramChange ch 2 = 0xC2, timing clock = 0xF8) and
\* three data bytes (0x00, 0x34, 0x7F).
InputBytes == {128, 146, 191, 194, 248, 0, 52, 127}

\* The bytes the streams of two parsers are drawn from: for the first a
\* NoteOn ch 2 and a ProgramChange status byte and the data bytes 0x00, 0x34,
\* for the second a NoteOff ch 0 and a timing clock status byte and the data
\* bytes 0x00, 0x7F.
InputBytesTwo == <<{146, 194, 0, 52}, {128, 248, 0, 127}>>

----------------------------------------------------------------------------
(* u8 arithmetic *)

RECURSIVE BitAnd(_, _)
\* a & b on unsigned integers, bit by bit.
BitAnd(a, b) ==
    IF a = 0 \/ b = 0
    THEN 0
    ELSE (a % 2) * (b % 2) + 2 * BitAnd(a \div 2, b \div 2)

\* byte & mask for every u8 and the three masks of the source (0x0f, 0x80,
\* 0xf0), computed once.
U8And == [a \in 0..U8Max, mask \in {15, 128, 240} |-> BitAnd(a, mask)]

----------------------------------------------------------------------------
(* MidiParserState and Option<MidiEvent> *)

Idle == [tag |-> "Idle"]
NoteOnRecvd(channel) == [tag |-> "NoteOnRecvd", channel |-> channel]
NoteOnNoteRecvd(channel, note) ==
    [tag |-> "NoteOnNoteRecvd", channel |-> channel, note |-> note]
NoteOffRecvd(channel) == [tag |-> "NoteOffRecvd", channel |-> channel]
NoteOffNoteRecvd(channel, note) ==
    [tag |-> "NoteOffNoteRecvd", channel |-> channel, note |-> note]
ControlChangeRecvd(channel) ==
    [tag |-> "ControlChangeRecvd", channel |-> channel]
ControlChangeControllerRecvd(channel, controller) ==
    [tag |-> "ControlChangeControllerRecvd", channel |-> channel,
     controller |-> controller]

\* The MidiEvent constructors the parser calls; an event carries its kind
\* and the three values it was built from.
note_on(channel, note, velocity) ==
    [kind |-> "NoteOn", channel |-> channel, p1 |-> note, p2 |-> velocity]
note_off(channel, note, velocity) ==
    [kind |-> "NoteOff", channel |-> channel, p1 |-> note, p2 |-> velocity]
controller_change(channel, controller, value) ==
    [kind |-> "ControllerChange", channel |-> channel, p1 |-> controller,
     p2 |-> value]

None == [some |-> FALSE]
Some(event) == [some |-> TRUE, event |-> event]

----------------------------------------------------------------------------
(* The helper functions *)

\* Slip: the top bit tested with > instead of the mask, so 0x80 is a data byte.
is_status_byte_gt(byte) == byte > 128

\* Slip: the masked value compared with 1 instead of 0x80.
is_status_byte_eq_one(byte) == BitAnd(byte, 128) = 1

is_status_byte(byte) == U8And[byte, 128] = 128

\* Slip: the two halves of the pair in the wrong order.
split_message_and_channel_swapped(byte) ==
    <<BitAnd(byte, 15), BitAnd(byte, 240)>>

\* Slip: the channel taken from the byte without masking it.
split_message_and_channel_no_mask(byte) == <<BitAnd(byte, 240), byte>>

split_message_and_channel(byte) == <<U8And[byte, 240], U8And[byte, 15]>>

----------------------------------------------------------------------------
(* MidiParser::parse_byte, as the pair (new self.state, returned value) *)

\* Slip: the 0x80 arm copied from the 0x90 arm without changing the state.
parse_status_copy_paste(self, byte) ==
    LET mc == split_message_and_channel(byte)
        message == mc[1]
        channel == mc[2]
    IN  CASE message = 128 -> [state |-> NoteOnRecvd(channel), ret |-> None]
          [] message = 144 -> [state |-> NoteOnRecvd(channel), ret |-> None]
          [] message = 176 ->
                [state |-> ControlChangeRecvd(channel), ret |-> None]
          [] OTHER -> [state |-> self, ret |-> None]

\* Slip: the `_` arm parks the parser in a state of its own.
parse_status_unknown(self, byte) ==
    LET mc == split_message_and_channel(byte)
        message == mc[1]
        channel == mc[2]
    IN  CASE message = 128 -> [state |-> NoteOffRecvd(channel), ret |-> None]
          [] message = 144 -> [state |-> NoteOnRecvd(channel), ret |-> None]
          [] message = 176 ->
                [state |-> ControlChangeRecvd(channel), ret |-> None]
          [] OTHER -> [state |-> [tag |-> "Unknown"], ret |-> None]

\* The branch taken for a status byte.
parse_status(self, byte) ==
    LET mc == split_message_and_channel(byte)
        message == mc[1]
        channel == mc[2]
    IN  CASE message = 128 -> [state |-> NoteOffRecvd(channel), ret |-> None]
          [] message = 144 -> [state |-> NoteOnRecvd(channel), ret |-> None]
          [] message = 176 ->
                [state |-> ControlChangeRecvd(channel), ret |-> None]
          [] OTHER -> [state |-> self, ret |-> None]

\* The branch taken for a data byte.
parse_data(self, byte) ==
    CASE self.tag = "NoteOnRecvd" ->
            [state |-> NoteOnNoteRecvd(self.channel, byte), ret |-> None]
      [] self.tag = "NoteOnNoteRecvd" ->
            [state |-> NoteOnRecvd(self.channel),
             ret |-> Some(note_on(self.channel, self.note, byte))]
      [] self.tag = "NoteOffRecvd" ->
            [state |-> NoteOffNoteRecvd(self.channel, byte), ret |-> None]
      [] self.tag = "NoteOffNoteRecvd" ->
            [state |-> NoteOffRecvd(self.channel),
             ret |-> Some(note_off(self.channel, self.note, byte))]
      [] self.tag = "ControlChangeRecvd" ->
            [state |-> ControlChangeControllerRecvd(self.channel, byte),
             ret |-> None]
      [] self.tag = "ControlChangeControllerRecvd" ->
            [state |-> ControlChangeRecvd(self.channel),
             ret |-> Some(controller_change(self.channel, self.controller,
                                            byte))]
      [] OTHER -> [state |-> self, ret |-> None]

\* Slip: a completed message returns the parser to Idle (no running status).
parse_byte_back_to_idle(self, byte) ==
    LET r == IF is_status_byte(byte)
             THEN parse_status(self, byte)
             ELSE parse_data(self, byte)
    IN  IF r.ret.some THEN [state |-> Idle, ret |-> r.ret] ELSE r

\* Slip: the `_` arm of the status match resets the parser to Idle.
parse_byte_unsupported_resets(self, byte) ==
    LET r == IF is_status_byte(byte)
             THEN parse_status(self, byte)
             ELSE parse_data(self, byte)
    IN  IF is_status_byte(byte)
           /\ split_message_and_channel(byte)[1] \notin {128, 144, 176}
        THEN [state |-> Idle, ret |-> None]
        ELSE r

\* Slip: a completed message leaves its last byte stored as the first
\* parameter of the next message.
parse_byte_reuse(self, byte) ==
    LET r == IF is_status_byte(byte)
             THEN parse_status(self, byte)
             ELSE parse_data(self, byte)
    IN  IF r.ret.some
        THEN [state |->
                CASE self.tag = "NoteOnNoteRecvd" ->
                        NoteOnNoteRecvd(self.channel, byte)
                  [] self.tag = "NoteOffNoteRecvd" ->
                        NoteOffNoteRecvd(self.channel, byte)
                  [] OTHER -> ControlChangeControllerRecvd(self.channel, byte),
              ret |-> r.ret]
        ELSE r

\* Slip: the two parameters of the event in the wrong order.
parse_byte_swapped_params(self, byte) ==
    LET r == IF is_status_byte(byte)
             THEN parse_status(self, byte)
             ELSE parse_data(self, byte)
    IN  IF r.ret.some
        THEN [state |-> r.state,
              ret |-> Some([r.ret.event EXCEPT !.p1 = r.ret.event.p2,
                                               !.p2 = r.ret.event.p1])]
        ELSE r

\* Slip: a status byte repeating the kind and channel of the message in
\* flight is taken as running status and changes nothing.
parse_byte_same_status_kept(self, byte) ==
    LET r == IF is_status_byte(byte)
             THEN parse_status(self, byte)
             ELSE parse_data(self, byte)
        first == CASE self.tag = "NoteOnNoteRecvd" -> NoteOnRecvd(self.channel)
                   [] self.tag = "NoteOffNoteRecvd" ->
                        NoteOffRecvd(self.channel)
                   [] self.tag = "ControlChangeControllerRecvd" ->
                        ControlChangeRecvd(self.channel)
                   [] OTHER -> self
    IN  IF is_status_byte(byte) /\ r.state = first
        THEN [state |-> self, ret |-> None]
        ELSE r

parse_byte(self, byte) ==
    IF is_status_byte(byte)
    THEN parse_status(self, byte)
    ELSE parse_data(self, byte)

RECURSIVE filter_map_parse_byte(_, _)
\* bytes.filter_map(|byte| self.parse_byte(*byte)).collect(): the events a
\* parser in state `self` returns for the stream, and the state it ends in.
filter_map_parse_byte(self, stream) ==
    IF stream = <<>>
    THEN [state |-> self, events |-> <<>>]
    ELSE LET r == parse_byte(self, Head(stream))
             rest == filter_map_parse_byte(r.state, Tail(stream))
         IN  [state |-> rest.state,
              events |-> (IF r.ret.some THEN <<r.ret.event>> ELSE <<>>)
                         \o rest.events]

----------------------------------------------------------------------------
(* Spec: one parser fed a byte stream *)

NoCall == [fn |-> "none"]

\* Slip: the parser starts as if a NoteOn status byte had been received.
new_running == NoteOnRecvd(0)

\* MidiParser::new()
new == Idle

Init ==
    /\ state = new
    /\ bytes = <<>>
    /\ results = <<>>
    /\ before = <<>>
    /\ arg = 0
    /\ ret = NoCall

\* One call self.parse_byte(byte).
ParseByte(byte) ==
    /\ Len(bytes) < MaxLen
    /\ LET r == parse_byte(state, byte)
       IN  /\ state' = r.state
           /\ results' = Append(results, r.ret)
    /\ bytes' = Append(bytes, byte)
    /\ before' = Append(before, state)
    /\ UNCHANGED <<arg, ret>>

Next == \E byte \in InputBytes : ParseByte(byte)

Spec == Init /\ [][Next]_vars

----------------------------------------------------------------------------
(* SpecParser: the parser alone, fed every u8, nothing recorded *)

\* One call self.parse_byte(byte), its return value dropped.
Consume(byte) ==
    /\ state' = parse_byte(state, byte).state
    /\ UNCHANGED <<bytes, results, before, arg, ret>>

NextParser == \E byte \in 0..U8Max : Consume(byte)

SpecParser == Init /\ [][NextParser]_vars

----------------------------------------------------------------------------
(* SpecTwo: two parsers, each fed its own stream, the calls interleaved.   *)
(* Every variable of Spec is here a pair, one component per parser.        *)

\* Slip: the state kept in one place shared by all parsers.
set_state_shared(states, k, s) == [j \in DOMAIN states |-> s]

\* self.state = s, for the parser k: the field belongs to the instance.
set_state(states, k, s) == [states EXCEPT ![k] = s]

InitTwo ==
    /\ state = <<new, new>>
    /\ bytes = <<(<<>>), (<<>>)>>
    /\ results = <<(<<>>), (<<>>)>>
    /\ before = <<(<<>>), (<<>>)>>
    /\ arg = 0
    /\ ret = NoCall

\* One call parser_k.parse_byte(byte).
ParseByteOn(k, byte) ==
    /\ Len(bytes[k]) < MaxLenTwo
    /\ LET r == parse_byte(state[k], byte)
       IN  /\ state' = set_state(state, k, r.state)
           /\ results' = [results EXCEPT ![k] = Append(@, r.ret)]
    /\ bytes' = [bytes EXCEPT ![k] = Append(@, byte)]
    /\ before' = [before EXCEPT ![k] = Append(@, state[k])]
    /\ UNCHANGED <<arg, ret>>

NextTwo == \E k \in {1, 2} : \E byte \in InputBytesTwo[k] : ParseByteOn(k, byte)

SpecTwo == InitTwo /\ [][NextTwo]_vars

----------------------------------------------------------------------------
(* SpecFn: the helpers on every u8 *)

InitFn ==
    /\ state = new
    /\ bytes = <<>>
    /\ results = <<>>
    /\ before = <<>>
    /\ arg \in 0..U8Max
    /\ ret = NoCall

CallIsStatusByte ==
    /\ ret = NoCall
    /\ ret' = [fn |-> "is_status_byte", value |-> is_status_byte(arg)]
    /\ UNCHANGED <<state, bytes, results, before, arg>>

CallSplitMessageAndChannel ==
    /\ ret = NoCall
    /\ ret' = [fn |-> "split_message_and_channel",
               value |-> split_message_and_channel(arg)]
    /\ UNCHANGED <<state, bytes, results, before, arg>>

NextFn == CallIsStatusByte \/ CallSplitMessageAndChannel

SpecFn == InitFn /\ [][NextFn]_vars

----------------------------------------------------------------------------
(* Vocabulary of the properties: the byte stream read as MIDI, by          *)
(* arithmetic on the byte values.                                          *)

IsStatus(b) == b >= 128
IsData(b) == b < 128
\* A status byte of type 0x80, 0x90 or 0xB0.
Supported(b) == IsStatus(b) /\ (b \div 16) \in {8, 9, 11}
Unsupported(b) == IsStatus(b) /\ ~Supported(b)

\* The event of the kind and channel of status byte b with parameters d1, d2.
EventOf(b, d1, d2) ==
    [kind |-> CASE b \div 16 = 8 -> "NoteOff"
                [] b \div 16 = 9 -> "NoteOn"
                [] OTHER -> "ControllerChange",
     channel |-> b % 16, p1 |-> d1, p2 |-> d2]

Calls == 1..Len(bytes)

\* self.state as call i left it.
After(i) == IF i = Len(bytes) THEN state ELSE before[i + 1]

\* The state holds a stored first parameter.
HoldsParam(s) ==
    s.tag \in {"NoteOnNoteRecvd", "NoteOffNoteRecvd",
               "ControlChangeControllerRecvd"}

Max(S) == CHOOSE x \in S : \A y \in S : y <= x

\* The last data byte consumed before call j (0: none).
PrevData(j) == Max({0} \cup {p \in 1..(j - 1) : IsData(bytes[p])})

\* The last supported status byte consumed before call j (0: none).
LastSupported(j) == Max({0} \cup {s \in 1..(j - 1) : Supported(bytes[s])})

\* Call j returned an event.
Emits(j) == results[j].some

----------------------------------------------------------------------------
(* The claims *)

\* C1: from every parser state, the three bytes (K|c), d1, d2 with K a
\* supported kind and d1, d2 data bytes return None, None and then exactly
\* the event K(c, d1, d2).
C1_StatusAndTwoDataGiveEvent ==
    \A i \in Calls :
        (/\ i + 2 <= Len(bytes)
         /\ Supported(bytes[i])
         /\ IsData(bytes[i + 1])
         /\ IsData(bytes[i + 2]))
        => /\ results[i] = None
           /\ results[i + 1] = None
           /\ results[i + 2] =
                Some(EventOf(bytes[i], bytes[i + 1], bytes[i + 2]))

\* C1 witness: a control change on channel 15 completed by three bytes that
\* found the parser holding the first parameter of a note-on.
C1_Witness ==
    /\ Len(bytes) = 5
    /\ before[3].tag = "NoteOnNoteRecvd"
    /\ bytes[3] = 191
    /\ IsData(bytes[4]) /\ IsData(bytes[5])
    /\ results[5] = Some(controller_change(15, bytes[4], bytes[5]))

\* C2: running status. After a supported status byte followed by data bytes
\* only, every even-positioned data byte returns the event made of it and
\* the data byte before it, with the kind and channel of the status byte,
\* and every odd-positioned data byte returns None.
C2_RunningStatus ==
    \A i \in Calls :
        Supported(bytes[i]) =>
            \A k \in 1..(Len(bytes) - i) :
                (\A m \in 1..k : IsData(bytes[i + m])) =>
                    results[i + k] =
                        IF k % 2 = 0
                        THEN Some(EventOf(bytes[i], bytes[i + k - 1],
                                          bytes[i + k]))
                        ELSE None

\* C2 witness: one status byte and four data bytes gave two events.
C2_Witness ==
    /\ Len(bytes) = 5
    /\ Supported(bytes[1])
    /\ \A m \in 2..5 : IsData(bytes[m])
    /\ Emits(3) /\ Emits(5)
    /\ ~Emits(2) /\ ~Emits(4)
    /\ results[3].event.p1 # results[5].event.p1

\* The events returned so far, in order.
Events ==
    LET some == SelectSeq(results, LAMBDA r : r.some)
    IN  [n \in 1..Len(some) |-> some[n].event]

\* Call j returned the first event after call i.
FirstEventAfter(i, j) ==
    /\ j > i
    /\ Emits(j)
    /\ \A m \in (i + 1)..(j - 1) : ~Emits(m)

\* C3 as claimed: after a supported status byte consumed while a message was
\* in flight, no event has a parameter consumed before that status byte, and
\* the next event has the kind and channel of that status byte.
C3_AsClaimed ==
    \A i \in Calls :
        (Supported(bytes[i]) /\ before[i] # Idle) =>
            \A j \in (i + 1)..Len(bytes) :
                Emits(j) =>
                    /\ PrevData(j) > i
                    /\ FirstEventAfter(i, j) =>
                          results[j] = Some(EventOf(bytes[i],
                                                    bytes[PrevData(j)],
                                                    bytes[j]))

\* C3 (amended): after a supported status byte consumed while a message was
\* in flight, no event has a parameter consumed before that status byte, and
\* the next event has the kind and channel of the supported status byte
\* consumed last before it (that status byte, or a later one that replaced
\* it), with both parameters consumed after that one.
C3_InterruptedMessageDiscarded ==
    \A i \in Calls :
        (Supported(bytes[i]) /\ before[i] # Idle) =>
            \A j \in (i + 1)..Len(bytes) :
                Emits(j) =>
                    /\ PrevData(j) > i
                    /\ FirstEventAfter(i, j) =>
                          /\ LastSupported(j) >= i
                          /\ PrevData(j) > LastSupported(j)
                          /\ results[j] = Some(EventOf(bytes[LastSupported(j)],
                                                       bytes[PrevData(j)],
                                                       bytes[j]))

\* C3 witness: a note-on holding its first parameter is interrupted by a
\* note-off status byte, and the only event is the note-off.
C3_Witness ==
    /\ Len(bytes) = 5
    /\ bytes[1] = 146
    /\ before[3] = NoteOnNoteRecvd(2, bytes[2])
    /\ bytes[3] = 128
    /\ Events = <<note_off(0, bytes[4], bytes[5])>>

\* C4 as claimed: after any status byte, supported or not, the parser holds
\* no first parameter, and no later event has a parameter consumed before
\* that status byte.
C4_AsClaimed ==
    \A i \in Calls :
        IsStatus(bytes[i]) =>
            /\ ~HoldsParam(After(i))
            /\ \A j \in (i + 1)..Len(bytes) : Emits(j) => PrevData(j) > i

\* C5 as claimed: after a status byte of an unsupported type, every data byte
\* returns None until a supported status byte is consumed.
C5_AsClaimed ==
    \A i \in Calls :
        Unsupported(bytes[i]) =>
            \A j \in (i + 1)..Len(bytes) :
                (/\ IsData(bytes[j])
                 /\ \A m \in (i + 1)..(j - 1) : ~Supported(bytes[m]))
                => results[j] = None

\* C6: a status byte of an unsupported type leaves the parser state as it
\* found it, and the stream gives the same events and the same final state
\* as the stream without its unsupported status bytes.
C6_UnsupportedStatusKeepsState ==
    /\ \A i \in Calls : Unsupported(bytes[i]) => After(i) = before[i]
    /\ LET kept == SelectSeq(bytes, LAMBDA b : ~Unsupported(b))
           run == filter_map_parse_byte(new, kept)
       IN  /\ run.state = state
           /\ run.events = Events

\* C6 witness: an unsupported status byte between the two parameters of a
\* note-on, which is emitted all the same.
C6_Witness ==
    /\ Len(bytes) = 4
    /\ HoldsParam(before[3])
    /\ Unsupported(bytes[3])
    /\ After(3) = before[3]
    /\ Emits(4)

\* C7: a call that consumes a status byte returns None.
C7_StatusByteReturnsNone ==
    \A i \in Calls : IsStatus(bytes[i]) => results[i] = None

\* C7 witness: status bytes, supported and not, consumed by a parser that
\* held a first parameter (where a data byte would have returned an event).
C7_Witness ==
    /\ Len(bytes) = 4
    /\ HoldsParam(before[3]) /\ Unsupported(bytes[3])
    /\ HoldsParam(before[4]) /\ Supported(bytes[4])

\* C8: a data byte consumed by an Idle parser returns None and leaves it
\* Idle; a parser fed data bytes only has returned no event and is Idle.
C8_DataByteWhileIdle ==
    /\ \A i \in Calls :
            (before[i] = Idle /\ IsData(bytes[i]))
            => (results[i] = None /\ After(i) = Idle)
    /\ (\A i \in Calls : IsData(bytes[i]))
            => (state = Idle /\ \A i \in Calls : results[i] = None)

\* C8 witness: a fresh parser fed three data bytes.
C8_Witness ==
    /\ Len(bytes) = 3
    /\ \A i \in Calls : IsData(bytes[i]) /\ before[i] = Idle
    /\ state = Idle

\* C9: a call that returns an event consumed a data byte, a supported status
\* byte was consumed before it, the event's parameters are the last two data
\* bytes consumed, both after that status byte, and neither was a parameter
\* of an earlier event.
C9_EventHasTwoFreshParams ==
    \A j \in Calls :
        Emits(j) =>
            LET s == LastSupported(j)
                p == PrevData(j)
            IN  /\ s > 0
                /\ IsData(bytes[j])
                /\ p > s
                /\ results[j].event.p1 = bytes[p]
                /\ results[j].event.p2 = bytes[j]
                /\ \A e \in 1..(j - 1) :
                        Emits(e) => (e # p /\ PrevData(e) # p)

\* C9 witness: an event whose two parameters follow the supported status
\* byte and have a status byte of an unsupported type between them.
C9_Witness ==
    /\ Len(bytes) = 5
    /\ Unsupported(bytes[1])
    /\ LastSupported(5) = 2
    /\ PrevData(5) = 3
    /\ Unsupported(bytes[4])
    /\ Emits(5)

\* C10: is_status_byte(b) is true exactly when the top bit of b is set, that
\* is when b >= 0x80.
C10_IsStatusByteIsTopBit ==
    ret.fn = "is_status_byte" =>
        /\ ret.value = (arg >= 128)
        /\ ret.value = ((arg \div 128) % 2 = 1)

\* C10 witness: is_status_byte(0x94), the test's case.
C10_Witness ==
    /\ ret.fn = "is_status_byte"
    /\ arg = 148
    /\ ret.value = TRUE

\* C11: the channel held in the parser state after every call, and the
\* channel of every event, is in 0..15 and is the low nibble of the supported
\* status byte consumed last.
C11_ChannelIsLowNibble ==
    \A i \in Calls :
        /\ After(i) # Idle =>
              /\ After(i).channel \in 0..15
              /\ LastSupported(i + 1) > 0
              /\ After(i).channel = bytes[LastSupported(i + 1)] % 16
        /\ Emits(i) =>
              /\ results[i].event.channel \in 0..15
              /\ LastSupported(i) > 0
              /\ results[i].event.channel = bytes[LastSupported(i)] % 16

\* C11 witness: a control change on channel 15 emitted, the state still
\* holding channel 15.
C11_Witness ==
    /\ Len(bytes) = 3
    /\ bytes[1] = 191
    /\ Emits(3)
    /\ results[3].event.channel = 15
    /\ state = ControlChangeRecvd(15)

\* A value of type MidiParserState: one of the seven variants, its fields u8.
IsMidiParserState(s) ==
    \/ s = Idle
    \/ /\ s.tag \in {"NoteOnRecvd", "NoteOffRecvd", "ControlChangeRecvd"}
       /\ DOMAIN s = {"tag", "channel"}
       /\ s.channel \in 0..U8Max
    \/ /\ s.tag \in {"NoteOnNoteRecvd", "NoteOffNoteRecvd"}
       /\ DOMAIN s = {"tag", "channel", "note"}
       /\ s.channel \in 0..U8Max
       /\ s.note \in 0..U8Max
    \/ /\ s.tag = "ControlChangeControllerRecvd"
       /\ DOMAIN s = {"tag", "channel", "controller"}
       /\ s.channel \in 0..U8Max
       /\ s.controller \in 0..U8Max

\* A value of type Option<MidiEvent>.
IsOptionMidiEvent(r) ==
    \/ r = None
    \/ /\ DOMAIN r = {"some", "event"}
       /\ r.some
       /\ r.event.kind \in {"NoteOn", "NoteOff", "ControllerChange"}
       /\ r.event.channel \in 0..U8Max
       /\ r.event.p1 \in 0..U8Max
       /\ r.event.p2 \in 0..U8Max

\* C12: after any sequence of bytes the state is one of the seven shapes,
\* and parse_byte is defined there for every byte 0x00..0xFF: it returns an
\* Option<MidiEvent> and leaves one of the seven shapes.
C12_TotalOverSevenShapes ==
    /\ IsMidiParserState(state)
    /\ \A b \in 0..U8Max :
            LET r == parse_byte(state, b)
            IN  /\ IsMidiParserState(r.state)
                /\ IsOptionMidiEvent(r.ret)

\* C12 witness: the parser holding the first parameter 0x7F of a control
\* change on channel 15.
C12_Witness == state = ControlChangeControllerRecvd(15, 127)

\* C13: every call returns at most one event, so n calls return at most n
\* events, and for n >= 1 at most floor((n - 1) / 2).
C13_AtMostOneEventPerCall ==
    /\ \A i \in Calls : IsOptionMidiEvent(results[i])
    /\ Len(Events) <= Len(bytes)
    /\ Len(bytes) >= 1 => Len(Events) <= (Len(bytes) - 1) \div 2

\* C13 witness: five bytes that returned two events, the most five can.
C13_Witness ==
    /\ Len(bytes) = 5
    /\ Len(Events) = 2
    /\ Events[1].kind = "NoteOff"

\* The message kind a non-Idle state is in.
KindOfState(s) ==
    CASE s.tag \in {"NoteOnRecvd", "NoteOnNoteRecvd"} -> "NoteOn"
      [] s.tag \in {"NoteOffRecvd", "NoteOffNoteRecvd"} -> "NoteOff"
      [] OTHER -> "ControllerChange"

\* The first parameter a state holds.
StoredParam(s) ==
    IF s.tag = "ControlChangeControllerRecvd" THEN s.controller ELSE s.note

\* The state awaiting the first parameter of a message of that kind.
AwaitingFirst(kind, channel) ==
    CASE kind = "NoteOn" -> NoteOnRecvd(channel)
      [] kind = "NoteOff" -> NoteOffRecvd(channel)
      [] OTHER -> ControlChangeRecvd(channel)

\* The state awaiting the second parameter of a message of that kind.
AwaitingSecond(kind, channel, p1) ==
    CASE kind = "NoteOn" -> NoteOnNoteRecvd(channel, p1)
      [] kind = "NoteOff" -> NoteOffNoteRecvd(channel, p1)
      [] OTHER -> ControlChangeControllerRecvd(channel, p1)

\* C15: a call returns an event exactly when it consumes a data byte in a
\* state awaiting the second parameter; the event is then K(c, p1, byte) and
\* the state after it awaits the first parameter of the same K and c. A data
\* byte consumed awaiting the first parameter returns None and is stored.
C15_EventIffSecondParam ==
    \A i \in Calls :
        LET s == before[i]
            b == bytes[i]
        IN  /\ Emits(i) <=> (IsData(b) /\ HoldsParam(s))
            /\ (IsData(b) /\ HoldsParam(s)) =>
                  /\ results[i] = Some([kind |-> KindOfState(s),
                                        channel |-> s.channel,
                                        p1 |-> StoredParam(s),
                                        p2 |-> b])
                  /\ After(i) = AwaitingFirst(KindOfState(s), s.channel)
                  /\ After(i) # Idle
            /\ (IsData(b) /\ s # Idle /\ ~HoldsParam(s)) =>
                  /\ results[i] = None
                  /\ After(i) = AwaitingSecond(KindOfState(s), s.channel, b)

\* C15 witness: a note-off on channel 0 holding 0x34 completed by 0x7F.
C15_Witness ==
    /\ Len(bytes) = 3
    /\ before[3] = NoteOffNoteRecvd(0, 52)
    /\ bytes[3] = 127
    /\ results[3] = Some(note_off(0, 52, 127))
    /\ state = NoteOffRecvd(0)

\* The events among a sequence of returned values, in order.
EventsOf(rs) ==
    LET some == SelectSeq(rs, LAMBDA r : r.some)
    IN  [n \in 1..Len(some) |-> some[n].event]

\* C14: however the calls of two parsers are interleaved, each parser has
\* returned the events, and is in the state, that its own stream gives a
\* parser fed alone.
C14_InstancesIndependent ==
    \A k \in {1, 2} :
        LET alone == filter_map_parse_byte(new, bytes[k])
        IN  /\ alone.state = state[k]
            /\ alone.events = EventsOf(results[k])

\* C14 witness: the first parser returned a note-on and the second a
\* note-off, each from its own three bytes.
C14_Witness ==
    /\ EventsOf(results[1]) = <<note_on(2, 0, 52)>>
    /\ EventsOf(results[2]) = <<note_off(0, 127, 0)>>
    /\ state = <<NoteOnRecvd(2), NoteOffRecvd(0)>>

\* The kind and channel a state holds.
KindAndChannel(s) ==
    IF s = Idle THEN <<"none">> ELSE <<KindOfState(s), s.channel>>

\* C16: every event has the kind and channel of the supported status byte
\* consumed last before it, and a call that consumes a data byte or an
\* unsupported status byte leaves the kind and channel of the state alone.
C16_KindAndChannelFromLastStatus ==
    \A i \in Calls :
        /\ Emits(i) =>
              /\ LastSupported(i) > 0
              /\ LET e == EventOf(bytes[LastSupported(i)], 0, 0)
                 IN  /\ results[i].event.kind = e.kind
                     /\ results[i].event.channel = e.channel
        /\ ~Supported(bytes[i]) =>
              KindAndChannel(After(i)) = KindAndChannel(before[i])

\* C16 witness: NoteOn ch 2, ControlChange ch 15 and an unsupported status
\* byte, then two data bytes: the event is a control change on channel 15.
C16_Witness ==
    /\ Len(bytes) = 5
    /\ bytes[1] = 146
    /\ bytes[2] = 191
    /\ bytes[3] = 194
    /\ results[5] = Some(controller_change(15, bytes[4], bytes[5]))

RECURSIVE AgreesFrom(_, _)
\* A parser in state s fed the bytes of calls j, j + 1, ... returns at every
\* call what the recorded call returned and is left in the state it left.
AgreesFrom(s, j) ==
    \/ j > Len(bytes)
    \/ LET r == parse_byte(s, bytes[j])
       IN  /\ r.ret = results[j]
           /\ r.state = After(j)
           /\ AgreesFrom(r.state, j + 1)

\* C17: from a supported status byte on, the parser behaves as a fresh
\* parser fed the same bytes: whatever state the status byte found, every
\* call from that one on returns what a parser started Idle returns for the
\* same bytes, and leaves the same state. Two parsers in any two states fed
\* the same status byte and bytes thus agree call by call.
C17_SupportedStatusErasesHistory ==
    \A i \in Calls : Supported(bytes[i]) => AgreesFrom(new, i)

\* C17 witness: a note-on holding its first parameter, the same status byte
\* again, and two data bytes that make the event.
C17_Witness ==
    /\ Len(bytes) = 5
    /\ bytes[1] = 146
    /\ before[3] = NoteOnNoteRecvd(2, bytes[2])
    /\ bytes[3] = 146
    /\ results[4] = None
    /\ results[5] = Some(note_on(2, bytes[4], bytes[5]))

\* C18: the parser is Idle, and returns nothing, exactly as long as no
\* supported status byte has been consumed; afterwards it is never Idle.
C18_IdleOnlyBeforeFirstStatus ==
    /\ \A i \in Calls :
            /\ before[i] = Idle <=> LastSupported(i) = 0
            /\ before[i] = Idle => results[i] = None
    /\ state = Idle <=> LastSupported(Len(bytes) + 1) = 0

\* C18 witness: after a supported status byte, an event, an unsupported
\* status byte and a data byte, the parser is not Idle.
C18_Witness ==
    /\ Len(bytes) = 5
    /\ Supported(bytes[1])
    /\ Emits(3)
    /\ Unsupported(bytes[4])
    /\ IsData(bytes[5])
    /\ state # Idle

\* C19: both parameters of every event, and the first parameter held by the
\* state after every call, are in 0x00..0x7F.
C19_ParamsAreDataBytes ==
    \A i \in Calls :
        /\ Emits(i) =>
              /\ results[i].event.p1 \in 0..127
              /\ results[i].event.p2 \in 0..127
        /\ HoldsParam(After(i)) => StoredParam(After(i)) \in 0..127

\* C19 witness: an event with both parameters 0x7F, and 0x7F held as the
\* first parameter of the next one.
C19_Witness ==
    /\ Len(bytes) = 4
    /\ Emits(3)
    /\ results[3].event.p1 = 127
    /\ results[3].event.p2 = 127
    /\ HoldsParam(state)
    /\ StoredParam(state) = 127

\* C20: split_message_and_channel(b) is (b & 0xF0, b & 0x0F): the message
\* has a zero low nibble, the channel is in 0..15, and the two add up to b.
C20_SplitIsHighAndLowNibble ==
    ret.fn = "split_message_and_channel" =>
        /\ ret.value = <<(arg \div 16) * 16, arg % 16>>
        /\ ret.value[1] % 16 = 0
        /\ ret.value[2] \in 0..15
        /\ ret.value[1] + ret.value[2] = arg

\* C20 witness: split_message_and_channel(0x91), the test's case.
C20_Witness ==
    /\ ret.fn = "split_message_and_channel"
    /\ arg = 145
    /\ ret.value = <<144, 1>>

====
